---- MODULE Spec2Model ----
(***************************************************************************)
(* Model of the policy drift detector (src/main.py): one run of main(),    *)
(* from the parsed command line to the end of the process, with the two    *)
(* documents drawn from bounded sets when load_data reads them.            *)
(*                                                                         *)
(* validate_data delegates to jsonschema.validate (main.py line 67).  The  *)
(* library's behaviour is modelled for the keywords type, enum, minimum,   *)
(* maximum, required, properties, additionalProperties and items, under    *)
(* the library's default dialect (no "$schema" key: boolean schemas are    *)
(* schemas, "items" takes one schema).  "pattern" is not modelled; every   *)
(* other key of a policy is an annotation the validator ignores.           *)
(***************************************************************************)
EXTENDS Integers, Sequences, FiniteSets, TLC

(***************************************************************************)
(* Documents: what yaml.safe_load / json.load return (main.py 41, 43).     *)
(* A node is tagged with its JSON kind; a mapping is a function from its   *)
(* keys to nodes (Python dict equality ignores insertion order), a         *)
(* sequence is a sequence of nodes.  Python keeps bool apart from int      *)
(* here because the validator does (True is no number, 1 is no boolean).   *)
(***************************************************************************)
Null == [k |-> "null", v |-> "None"]
Bool(b) == [k |-> "boolean", v |-> b]
Num(n) == [k |-> "number", v |-> n]
Str(s) == [k |-> "string", v |-> s]
Obj(f) == [k |-> "object", v |-> f]
Arr(q) == [k |-> "array", v |-> q]

\* Python truth value of a loaded document, as used by `if not policy_data`
\* and `if not system_data`: None, False, 0, "", {} and [] are falsy.
Truthy(d) ==
    CASE d.k = "null" -> FALSE
      [] d.k = "boolean" -> d.v
      [] d.k = "number" -> d.v # 0
      [] d.k = "string" -> d.v # ""
      [] d.k = "object" -> DOMAIN d.v # {}
      [] d.k = "array" -> Len(d.v) # 0

\* dict union, the right operand winning: how the policy documents below are
\* assembled from their keywords.
Merge(f, g) ==
    [x \in (DOMAIN f) \cup (DOMAIN g) |-> IF x \in DOMAIN g THEN g[x] ELSE f[x]]

RECURSIVE Flatten(_)
Flatten(ss) == IF ss = <<>> THEN <<>> ELSE Head(ss) \o Flatten(Tail(ss))

\* Mapping keys in a fixed order (the model's stand-in for dict iteration
\* order; no claim below depends on the order of violations).
RECURSIVE SetToSeq(_)
SetToSeq(S) ==
    IF S = {} THEN <<>>
    ELSE LET x == CHOOSE y \in S : TRUE IN <<x>> \o SetToSeq(S \ {x})
KeysOf(f) == SetToSeq(DOMAIN f)

(***************************************************************************)
(* jsonschema: deep equality used by "enum" (bool and int never equal).    *)
(***************************************************************************)
RECURSIVE equal(_, _)
equal(one, two) ==
    IF one.k # two.k THEN FALSE
    ELSE CASE one.k = "object" ->
                /\ DOMAIN one.v = DOMAIN two.v
                /\ \A key \in DOMAIN one.v : equal(one.v[key], two.v[key])
           [] one.k = "array" ->
                /\ Len(one.v) = Len(two.v)
                /\ \A i \in 1..Len(one.v) : equal(one.v[i], two.v[i])
           [] OTHER -> one.v = two.v

\* jsonschema type checker: is_type(instance, type).
TypeNames == {"null", "boolean", "integer", "number", "string", "object", "array"}
is_type(inst, t) ==
    CASE t = "integer" -> inst.k = "number"
      [] OTHER -> inst.k = t

(***************************************************************************)
(* jsonschema check_schema: the policy validated against the metaschema.   *)
(* A schema is a boolean or a mapping; each modelled keyword has the value *)
(* type the metaschema demands; unknown keys are unconstrained.            *)
(***************************************************************************)
IsStringArray(d) ==
    /\ d.k = "array"
    /\ \A i \in 1..Len(d.v) : d.v[i].k = "string"
    /\ \A i, j \in 1..Len(d.v) : i # j => d.v[i].v # d.v[j].v

ValidTypeValue(d) ==
    \/ d.k = "string" /\ d.v \in TypeNames
    \/ /\ IsStringArray(d)
       /\ \A i \in 1..Len(d.v) : d.v[i].v \in TypeNames

RECURSIVE check_schema(_)
check_schema(s) ==
    CASE s.k = "boolean" -> TRUE
      [] s.k = "object" ->
            \A kw \in DOMAIN s.v :
                CASE kw = "type" -> ValidTypeValue(s.v[kw])
                  [] kw = "enum" -> s.v[kw].k = "array"
                  [] kw \in {"minimum", "maximum"} -> s.v[kw].k = "number"
                  [] kw = "required" -> IsStringArray(s.v[kw])
                  [] kw = "properties" ->
                        /\ s.v[kw].k = "object"
                        /\ \A p \in DOMAIN s.v[kw].v : check_schema(s.v[kw].v[p])
                  [] kw \in {"additionalProperties", "items"} -> check_schema(s.v[kw])
                  [] OTHER -> TRUE
      [] OTHER -> FALSE

(***************************************************************************)
(* jsonschema iter_errors: every violation of `inst` against the (valid)   *)
(* schema `s`, as records of the failed keyword, the path of the offending *)
(* node (keys as Str, indices as Num) and, for "required", the key.        *)
(***************************************************************************)
Violation(rule, path, key) == [rule |-> rule, path |-> path, key |-> key]

TypeErrors(tv, inst, path) ==
    LET names == IF tv.k = "string" THEN {tv.v} ELSE {tv.v[i].v : i \in 1..Len(tv.v)}
    IN IF \E t \in names : is_type(inst, t) THEN <<>>
       ELSE <<Violation("type", path, "")>>

EnumErrors(ev, inst, path) ==
    IF \E i \in 1..Len(ev.v) : equal(ev.v[i], inst) THEN <<>>
    ELSE <<Violation("enum", path, "")>>

MinimumErrors(m, inst, path) ==
    IF inst.k = "number" /\ inst.v < m.v THEN <<Violation("minimum", path, "")>> ELSE <<>>

MaximumErrors(m, inst, path) ==
    IF inst.k = "number" /\ inst.v > m.v THEN <<Violation("maximum", path, "")>> ELSE <<>>

RequiredErrors(req, inst, path) ==
    IF inst.k # "object" THEN <<>>
    ELSE Flatten([i \in 1..Len(req.v) |->
                    IF req.v[i].v \in DOMAIN inst.v THEN <<>>
                    ELSE <<Violation("required", path, req.v[i].v)>>])

\* The keys of `inst` that "properties" does not name.
ExtraKeys(s, inst) ==
    LET known == IF "properties" \in DOMAIN s.v THEN DOMAIN s.v["properties"].v ELSE {}
    IN SelectSeq(KeysOf(inst.v), LAMBDA key : key \notin known)

KeywordOrder ==
    <<"type", "enum", "minimum", "maximum", "required", "properties",
      "additionalProperties", "items">>

RECURSIVE iter_errors(_, _, _)

\* A closed-world "properties": a key of the instance that "properties" does
\* not declare is a violation.
PropertiesClosed(props, inst, path) ==
    IF inst.k # "object" THEN <<>>
    ELSE LET ps == SelectSeq(KeysOf(props.v), LAMBDA p : p \in DOMAIN inst.v)
             unknown == SelectSeq(KeysOf(inst.v), LAMBDA p : p \notin DOMAIN props.v)
         IN Flatten([i \in 1..Len(ps) |->
                iter_errors(props.v[ps[i]], inst.v[ps[i]], Append(path, Str(ps[i])))])
            \o [i \in 1..Len(unknown) |->
                    Violation("properties", Append(path, Str(unknown[i])), unknown[i])]

\* "properties": each declared key present in the instance is validated
\* against its sub-schema; keys of the instance it does not declare are not
\* looked at.
PropertiesErrors(props, inst, path) ==
    IF inst.k # "object" THEN <<>>
    ELSE LET ps == SelectSeq(KeysOf(props.v), LAMBDA p : p \in DOMAIN inst.v)
         IN Flatten([i \in 1..Len(ps) |->
                iter_errors(props.v[ps[i]], inst.v[ps[i]], Append(path, Str(ps[i])))])

\* "additionalProperties": a schema is applied to every key "properties" does
\* not name; false forbids such keys (one violation, whatever their number).
AdditionalPropertiesErrors(ap, inst, s, path) ==
    IF inst.k # "object" THEN <<>>
    ELSE LET extras == ExtraKeys(s, inst)
         IN IF ap.k = "object"
            THEN Flatten([i \in 1..Len(extras) |->
                    iter_errors(ap, inst.v[extras[i]], Append(path, Str(extras[i])))])
            ELSE IF ~ap.v /\ extras # <<>>
                 THEN <<Violation("additionalProperties", path, "")>>
                 ELSE <<>>

\* "items": the schema is applied to every element, in index order.
ItemsErrors(items, inst, path) ==
    IF inst.k # "array" THEN <<>>
    ELSE Flatten([i \in 1..Len(inst.v) |->
            iter_errors(items, inst.v[i], Append(path, Num(i - 1)))])

iter_errors(s, inst, path) ==
    IF s.k = "boolean"
    THEN IF s.v THEN <<>> ELSE <<Violation("false_schema", path, "")>>
    ELSE LET kws == SelectSeq(KeywordOrder, LAMBDA kw : kw \in DOMAIN s.v)
             ByKeyword(kw) ==
                CASE kw = "type" -> TypeErrors(s.v[kw], inst, path)
                  [] kw = "enum" -> EnumErrors(s.v[kw], inst, path)
                  [] kw = "minimum" -> MinimumErrors(s.v[kw], inst, path)
                  [] kw = "maximum" -> MaximumErrors(s.v[kw], inst, path)
                  [] kw = "required" -> RequiredErrors(s.v[kw], inst, path)
                  [] kw = "properties" -> PropertiesErrors(s.v[kw], inst, path)
                  [] kw = "additionalProperties" ->
                        AdditionalPropertiesErrors(s.v[kw], inst, s, path)
                  [] kw = "items" -> ItemsErrors(s.v[kw], inst, path)
         IN Flatten([i \in 1..Len(kws) |-> ByKeyword(kws[i])])

\* jsonschema.validate(instance, schema): the exception it raises, or "none".
\* validator_for evaluates `"$schema" not in schema`, a TypeError for a number
\* or None; check_schema raises SchemaError; the best match of iter_errors is
\* raised as ValidationError.
validate(inst, s) ==
    IF s.k \in {"number", "null"} THEN "TypeError"
    ELSE IF ~check_schema(s) THEN "SchemaError"
    ELSE IF iter_errors(s, inst, <<>>) # <<>> THEN "ValidationError"
    ELSE "none"

\* What the validator found: the violations of the data, when it got as far
\* as comparing the data with the policy.
Found(inst, s) ==
    IF validate(inst, s) \in {"TypeError", "SchemaError"} THEN <<>>
    ELSE iter_errors(s, inst, <<>>)

(***************************************************************************)
(* Bounded inputs.                                                         *)
(***************************************************************************)
MaxNum == 2
MaxLen == 1

Scalars ==
    {Null, Bool(FALSE), Bool(TRUE), Str(""), Str("x")} \cup {Num(n) : n \in 0..MaxNum}

Values == {Bool(FALSE), Bool(TRUE), Str("x")} \cup {Num(n) : n \in 1..MaxNum}

FlatObjects ==
    {Obj(Merge(fa, fb)) : fa \in {<<>>} \cup {[a |-> x] : x \in Values},
                          fb \in {<<>>} \cup {[b |-> x] : x \in Values}}

NestedObjects ==
    {Obj(Merge([a |-> Obj(fb)], fz)) :
        fb \in {<<>>} \cup {[b |-> x] : x \in {Num(1), Str("x")}},
        fz \in {<<>>, [z |-> Num(1)]}}

Arrays ==
    UNION {{Arr(q) : q \in [1..n -> Values \cup {Obj(<<>>), Obj([b |-> Num(1)])}]} :
            n \in 0..MaxLen}

DataDocs == Scalars \cup FlatObjects \cup NestedObjects \cup Arrays

TypeOpts ==
    {<<>>} \cup {[type |-> Str(t)] : t \in {"number", "string", "boolean", "object"}}

ConstraintOpts ==
    {<<>>, [enum |-> Arr(<<Bool(TRUE)>>)], [enum |-> Arr(<<Num(1), Str("x")>>)],
     [minimum |-> Num(1)], [maximum |-> Num(1)],
     [minimum |-> Num(1), maximum |-> Num(MaxNum)]}

LeafPolicies ==
    {Obj(Merge(t, c)) : t \in TypeOpts, c \in ConstraintOpts} \cup {Bool(TRUE), Bool(FALSE)}

SubPolicies ==
    {Obj(<<>>), Bool(FALSE),
     Obj([type |-> Str("number")]), Obj([type |-> Str("string")]),
     Obj([type |-> Str("object")]),
     Obj([type |-> Str("number"), minimum |-> Num(1), maximum |-> Num(MaxNum)]),
     Obj([type |-> Str("boolean"), enum |-> Arr(<<Bool(TRUE)>>)]),
     Obj([required |-> Arr(<<Str("b")>>)]),
     Obj([properties |-> Obj([b |-> Obj([type |-> Str("number")])])]),
     Obj([properties |-> Obj([b |-> Obj([type |-> Str("number")])]),
          additionalProperties |-> Bool(FALSE)]),
     Obj([type |-> Num(5)])}

ObjectPolicies ==
    {Obj(Merge(Merge(t, r), Merge(p, ap))) :
        t \in {<<>>, [type |-> Str("object")]},
        r \in {<<>>, [required |-> Arr(<<Str("a")>>)],
               [required |-> Arr(<<Str("a"), Str("b")>>)]},
        p \in {<<>>} \cup {[properties |-> Obj([a |-> s])] : s \in SubPolicies},
        ap \in {<<>>, [additionalProperties |-> Bool(FALSE)],
                [additionalProperties |-> Obj([type |-> Str("number")])]}}

ArrayPolicies ==
    {Obj(Merge(t, [items |-> s])) :
        t \in {<<>>, [type |-> Str("array")]},
        s \in {Obj([type |-> Str("number")]), Obj([required |-> Arr(<<Str("b")>>)]),
               Bool(FALSE)}}

OtherPolicies ==
    {Null, Num(0), Num(1), Str(""), Str("abc"), Arr(<<>>), Arr(<<Str("a")>>),
     Obj([description |-> Str("x")]),
     Obj([description |-> Str("x"), type |-> Str("object")]),
     Obj([enum |-> Arr(<<Obj([a |-> Num(1)])>>)]),
     Obj([type |-> Str("text")]), Obj([required |-> Str("a")]),
     Obj([minimum |-> Str("x")]), Obj([properties |-> Arr(<<>>)])}

PolicyDocs == LeafPolicies \cup ObjectPolicies \cup ArrayPolicies \cup OtherPolicies

\* A file named on the command line, as load_data finds it: readable with a
\* parsed content, or failing in one of the ways load_data distinguishes.
FailureKinds == {"missing", "garbled", "unsupported", "unreadable"}
File(status, content) == [status |-> status, content |-> content]
PolicyFiles ==
    {File(st, Null) : st \in FailureKinds} \cup {File("ok", d) : d \in PolicyDocs}
DataFiles ==
    {File(st, Null) : st \in FailureKinds} \cup {File("ok", d) : d \in DataDocs}

(***************************************************************************)
(* The program.                                                            *)
(***************************************************************************)
VARIABLES
    alert,          \* args.alert
    log_level,      \* args.log_level, set on the root logger at line 87
    pc,             \* where main() is
    policy_data,    \* main's policy_data
    system_data,    \* main's system_data
    is_valid,       \* main's is_valid: "unbound", "True" or "False"
    found,          \* the violations the validator found in the last validation
    validate_calls, \* how many times validate_data was invoked
    log,            \* the log records emitted, oldest first
    alerted,        \* whether the alert creation step (line 109) was reached
    exit_status     \* the process's exit status, -1 while it runs

vars == <<alert, log_level, pc, policy_data, system_data, is_valid, found,
          validate_calls, log, alerted, exit_status>>

Unbound == [k |-> "unbound", v |-> "unbound"]

\* logging's numeric levels; a record is emitted when its level is at least
\* the root logger's.
Rank == [DEBUG |-> 10, INFO |-> 20, WARNING |-> 30, ERROR |-> 40, CRITICAL |-> 50]
LogLevels == {"DEBUG", "INFO", "WARNING", "ERROR", "CRITICAL"}
Call(level, msg) == [level |-> level, msg |-> msg]
Emit(lg, calls) ==
    lg \o SelectSeq(calls, LAMBDA c : Rank[c.level] >= Rank[log_level])

\* load_data(file_path): the exception it raises ("none" when it returns),
\* the value it returns and the logging calls it makes.
load_data(file) ==
    CASE file.status = "ok" ->
            [raised |-> "none", value |-> file.content, calls |-> <<>>]
      [] file.status = "missing" ->
            [raised |-> "FileNotFoundError", value |-> Unbound,
             calls |-> <<Call("ERROR", "File not found")>>]
      [] file.status = "garbled" ->
            [raised |-> "ValueError", value |-> Unbound,
             calls |-> <<Call("ERROR", "Error parsing file")>>]
      [] file.status = "unsupported" ->
            [raised |-> "ValueError", value |-> Unbound,
             calls |-> <<Call("ERROR", "An unexpected error occurred")>>]
      [] file.status = "unreadable" ->
            [raised |-> "OSError", value |-> Unbound,
             calls |-> <<Call("ERROR", "An unexpected error occurred")>>]

\* A validate_data whose `except ValidationError` clause is missing: the
\* validator's ValidationError escapes to the caller.
validate_data_uncaught(data, schema) ==
    LET exc == validate(data, schema)
    IN [result |-> exc = "none",
        raised |-> IF exc = "ValidationError" THEN exc ELSE "none",
        calls |-> CASE exc = "none" -> <<>>
                    [] exc = "SchemaError" -> <<Call("ERROR", "Schema Error")>>
                    [] OTHER -> <<Call("ERROR", "An unexpected error occurred during validation")>>]

\* validate_data(data, schema): its return value, the exception that escapes
\* it ("none": every Exception is caught) and the logging calls it makes.
validate_data(data, schema) ==
    LET exc == validate(data, schema)
    IN [result |-> exc = "none",
        raised |-> "none",
        calls |-> CASE exc = "none" -> <<>>
                    [] exc = "ValidationError" -> <<Call("ERROR", "Validation Error")>>
                    [] exc = "SchemaError" -> <<Call("ERROR", "Schema Error")>>
                    [] OTHER -> <<Call("ERROR", "An unexpected error occurred during validation")>>]

\* Except clauses that log the exception and forget sys.exit(1): main returns
\* and the process ends with status 0.
on_exception_no_exit(exc) ==
    [calls |-> CASE exc = "FileNotFoundError" -> <<Call("ERROR", "File not found")>>
                 [] exc = "ValueError" -> <<Call("ERROR", "ValueError message")>>
                 [] OTHER -> <<Call("ERROR", "An unexpected error occurred")>>,
     exit |-> 0]

\* main's except clauses (lines 111-119): one error record, then sys.exit(1).
on_exception(exc) ==
    [calls |-> CASE exc = "FileNotFoundError" -> <<Call("ERROR", "File not found")>>
                 [] exc = "ValueError" -> <<Call("ERROR", "ValueError message")>>
                 [] OTHER -> <<Call("ERROR", "An unexpected error occurred")>>,
     exit |-> 1]

\* main's checks of the loaded documents (lines 95-100): the message of the
\* check that fails, or "pass".
guard(policy, data) ==
    IF ~Truthy(policy) THEN "Policy data could not be loaded."
    ELSE IF ~Truthy(data) THEN "System data could not be loaded."
    ELSE "pass"

\* A report that creates the alert on every drift, whatever --alert says.
report_alert_unflagged(valid, alert_flag) ==
    [calls |-> IF valid
               THEN <<Call("INFO", "System configuration is compliant with the security policy.")>>
               ELSE <<Call("WARNING", "Policy drift detected!"),
                      Call("WARNING", "Creating alert...")>>,
     alerted |-> ~valid,
     exit |-> 0]

\* A report that ends the process with status 1 when drift was detected.
report_exit_on_drift(valid, alert_flag) ==
    [calls |-> IF valid
               THEN <<Call("INFO", "System configuration is compliant with the security policy.")>>
               ELSE <<Call("WARNING", "Policy drift detected!")>>
                    \o (IF alert_flag THEN <<Call("WARNING", "Creating alert...")>> ELSE <<>>),
     alerted |-> ~valid /\ alert_flag,
     exit |-> IF valid THEN 0 ELSE 1]

\* main's report of the verdict (lines 104-109) and its return: the logging
\* calls, whether the alert step is reached, and the exit status.
report(valid, alert_flag) ==
    [calls |-> IF valid
               THEN <<Call("INFO", "System configuration is compliant with the security policy.")>>
               ELSE <<Call("WARNING", "Policy drift detected!")>>
                    \o (IF alert_flag THEN <<Call("WARNING", "Creating alert...")>> ELSE <<>>),
     alerted |-> ~valid /\ alert_flag,
     exit |-> 0]

Init ==
    /\ alert \in BOOLEAN
    /\ log_level \in LogLevels
    /\ pc = "load_policy"
    /\ policy_data = Unbound
    /\ system_data = Unbound
    /\ is_valid = "unbound"
    /\ found = <<>>
    /\ validate_calls = 0
    /\ log = <<>>
    /\ alerted = FALSE
    /\ exit_status = -1

\* An exception reaching main's try block: handled, and the process exits.
Abort(calls, exc) ==
    LET h == on_exception(exc)
    IN /\ log' = Emit(log, calls \o h.calls)
       /\ exit_status' = h.exit
       /\ pc' = "exited"

\* line 91: policy_data = load_data(args.policy_file)
LoadPolicy ==
    /\ pc = "load_policy"
    /\ \E file \in PolicyFiles :
        LET r == load_data(file)
        IN IF r.raised # "none"
           THEN /\ Abort(r.calls, r.raised)
                /\ UNCHANGED policy_data
           ELSE /\ policy_data' = r.value
                /\ log' = Emit(log, r.calls)
                /\ pc' = "load_data"
                /\ UNCHANGED exit_status
    /\ UNCHANGED <<alert, log_level, system_data, is_valid, found, validate_calls, alerted>>

\* line 92: system_data = load_data(args.data_file)
LoadData ==
    /\ pc = "load_data"
    /\ \E file \in DataFiles :
        LET r == load_data(file)
        IN IF r.raised # "none"
           THEN /\ Abort(r.calls, r.raised)
                /\ UNCHANGED system_data
           ELSE /\ system_data' = r.value
                /\ log' = Emit(log, r.calls)
                /\ pc' = "guard"
                /\ UNCHANGED exit_status
    /\ UNCHANGED <<alert, log_level, policy_data, is_valid, found, validate_calls, alerted>>

\* lines 95-100: a falsy document ends the run with sys.exit(1) (SystemExit is
\* no Exception, so no except clause of main catches it).
Guard ==
    /\ pc = "guard"
    /\ LET g == guard(policy_data, system_data)
       IN IF g = "pass"
          THEN /\ pc' = "validate"
               /\ UNCHANGED <<log, exit_status>>
          ELSE /\ log' = Emit(log, <<Call("ERROR", g)>>)
               /\ exit_status' = 1
               /\ pc' = "exited"
    /\ UNCHANGED <<alert, log_level, policy_data, system_data, is_valid, found,
                   validate_calls, alerted>>

\* line 102: is_valid = validate_data(system_data, policy_data)
Validate ==
    /\ pc = "validate"
    /\ validate_calls' = validate_calls + 1
    /\ found' = Found(system_data, policy_data)
    /\ LET r == validate_data(system_data, policy_data)
       IN IF r.raised # "none"
          THEN /\ Abort(r.calls, r.raised)
               /\ UNCHANGED is_valid
          ELSE /\ is_valid' = (IF r.result THEN "True" ELSE "False")
               /\ log' = Emit(log, r.calls)
               /\ pc' = "report"
               /\ UNCHANGED exit_status
    /\ UNCHANGED <<alert, log_level, policy_data, system_data, alerted>>

\* lines 104-109, then main returns and the process ends.
Report ==
    /\ pc = "report"
    /\ LET r == report(is_valid = "True", alert)
       IN /\ log' = Emit(log, r.calls)
          /\ alerted' = r.alerted
          /\ exit_status' = r.exit
    /\ pc' = "done"
    /\ UNCHANGED <<alert, log_level, policy_data, system_data, is_valid, found,
                   validate_calls>>

Next == LoadPolicy \/ LoadData \/ Guard \/ Validate \/ Report

Spec == Init /\ [][Next]_vars

(***************************************************************************)
(* Properties.                                                             *)
(***************************************************************************)
Finished == pc \in {"done", "exited"}
HasRecord(msg) == \E i \in 1..Len(log) : log[i].msg = msg
ReportedCompliant ==
    HasRecord("System configuration is compliant with the security policy.")
ReportedDrift == HasRecord("Policy drift detected!")
\* The log levels at which both verdict messages are emitted.
VerdictsVisible == Rank[log_level] <= Rank["INFO"]

\* C1: whenever validation was reached, the verdict is compliant iff the
\* validator found no violation, and (at a log level that shows both
\* messages) main reports "compliant" exactly for True and "Policy drift
\* detected" exactly for False, never both and never neither.
C1_CompliantIffNoViolation ==
    /\ is_valid # "unbound" => (is_valid = "True" <=> found = <<>>)
    /\ (pc = "done" /\ VerdictsVisible) =>
            /\ ReportedCompliant <=> is_valid = "True"
            /\ ReportedDrift <=> is_valid = "False"
            /\ ReportedCompliant # ReportedDrift

\* C2: validate_data is total: once invoked it has returned a verdict, and
\* no failure of the validator (a data-shape mismatch included) escaped it
\* to abort the run.
C2_ValidateDataTotal ==
    validate_calls > 0 =>
        /\ is_valid \in {"True", "False"}
        /\ pc \in {"report", "done"}
        /\ exit_status # 1

\* C2 witness: a scalar where the policy expects a mapping was validated and
\* came back as a drifted verdict with a type violation.
C2_Witness ==
    /\ pc = "report"
    /\ policy_data.k = "object"
    /\ "type" \in DOMAIN policy_data.v
    /\ "properties" \in DOMAIN policy_data.v
    /\ system_data.k \in {"number", "string", "boolean"}
    /\ is_valid = "False"
    /\ \E i \in 1..Len(found) : found[i].rule = "type" /\ found[i].path = <<>>

\* C3: a policy whose root is a bare scalar is rejected as a hard failure:
\* no compliant/drifted verdict is ever produced for it.
C3_ScalarPolicyRejected ==
    policy_data.k \in {"null", "boolean", "number", "string"} =>
        /\ is_valid = "unbound"
        /\ pc \notin {"report", "done"}
        /\ ~ReportedDrift /\ ~ReportedCompliant

\* C4: when the (valid) policy lists key kk in "required" and the data is a
\* mapping without kk, the run ends in a normal drifted verdict with exactly
\* one required-violation for kk at the root mapping, not in a hard failure.
RequiredKeys(pol) ==
    IF pol.k = "object" /\ check_schema(pol) /\ "required" \in DOMAIN pol.v
    THEN {pol.v["required"].v[i].v : i \in 1..Len(pol.v["required"].v)}
    ELSE {}
C4_MissingRequiredIsDrift ==
    (Finished /\ system_data.k = "object") =>
        \A kk \in RequiredKeys(policy_data) \ DOMAIN system_data.v :
            /\ pc = "done"
            /\ exit_status # 1
            /\ is_valid = "False"
            /\ Cardinality({i \in 1..Len(found) :
                    /\ found[i].rule = "required"
                    /\ found[i].path = <<>>
                    /\ found[i].key = kk}) = 1

\* C5: the alert step is reached only on a drifted verdict with --alert set,
\* never on a compliant verdict, without the flag, or on a hard failure.
C5_AlertOnlyOnFlaggedDrift ==
    (alerted \/ HasRecord("Creating alert...")) =>
        /\ is_valid = "False"
        /\ alert
        /\ pc = "done"
        /\ exit_status = 0

\* C5 witness: a drifted run with --alert reached the alert step.
C5_Witness == pc = "done" /\ alerted /\ alert /\ is_valid = "False"

\* C6: validate_data is a pure function: it has no observable effect but
\* its return value; in particular it emits no log record, whether the
\* outcome is compliant or drifted (stated here for the well-formed
\* policies, so that the outcome is a verdict on the data).
C6_ValidateEmitsNothing ==
    [][(pc = "validate" /\ check_schema(policy_data)) =>
            /\ log' = log
            /\ UNCHANGED <<alerted, exit_status, policy_data, system_data>>]_vars

\* C7: when loading the policy file or the data file failed, validate_data
\* was never invoked, no verdict was reported, and the process exited with
\* a non-zero status.
LoadFailed == pc \notin {"load_policy", "load_data"} /\ system_data = Unbound
C7_LoadFailureAborts ==
    LoadFailed =>
        /\ pc = "exited"
        /\ exit_status = 1
        /\ validate_calls = 0
        /\ is_valid = "unbound"
        /\ ~ReportedCompliant /\ ~ReportedDrift

\* C7 witness: the policy was loaded and the data file failed to load.
C7_Witness ==
    /\ pc = "exited" /\ policy_data # Unbound /\ system_data = Unbound
    /\ exit_status = 1

\* C8: a policy mapping with none of the validator's constraint keys (the
\* empty mapping included) matches every data document: compliant, no
\* violation, no failure.
ConstraintKeys ==
    {"type", "required", "properties", "items", "enum", "pattern", "minimum",
     "maximum", "additionalProperties"}
C8_OpenPolicyMatchesAnything ==
    (/\ Finished
     /\ policy_data.k = "object"
     /\ DOMAIN policy_data.v \cap ConstraintKeys = {}
     /\ system_data # Unbound) =>
        /\ pc = "done"
        /\ is_valid = "True"
        /\ found = <<>>
        /\ exit_status = 0

\* C9 (as claimed): a compliant run exits with status 0; a drifted run
\* (violations were found) and a run that ended in a hard failure exit with
\* a non-zero status.
C9_ExitReflectsVerdict ==
    Finished =>
        /\ is_valid = "True" => exit_status = 0
        /\ (is_valid = "False" /\ found # <<>>) => exit_status # 0
        /\ is_valid = "unbound" => exit_status # 0

\* C9 (amended): a compliant run exits 0, a run that ended in a hard failure
\* exits 1, and a drifted run exits 0 as well.
C9_ExitZeroUnlessHardFailure ==
    Finished =>
        /\ exit_status \in {0, 1}
        /\ is_valid = "True" => exit_status = 0
        /\ is_valid = "False" => exit_status = 0
        /\ is_valid = "unbound" => exit_status = 1

\* C9 witness: a drifted run ended with status 0.
C9_Witness == pc = "done" /\ is_valid = "False" /\ exit_status = 0 /\ found # <<>>

(***************************************************************************)
(* C10: open world.  Extensions(d, s) is every document obtained from d by *)
(* adding one key, with any value, to one mapping of d (the root or a      *)
(* nested one), the key being one that the "properties" of the policy      *)
(* node governing that mapping does not mention.                           *)
(***************************************************************************)
ExtraNames == {"a", "b", "z"}
ExtraValues == Scalars \cup {Obj(<<>>), Arr(<<>>)}

Mentioned(s) ==
    IF s.k = "object" /\ "properties" \in DOMAIN s.v /\ s.v["properties"].k = "object"
    THEN DOMAIN s.v["properties"].v ELSE {}
SubPolicy(s, key) == IF key \in Mentioned(s) THEN s.v["properties"].v[key] ELSE Bool(TRUE)
ItemsPolicy(s) ==
    IF s.k = "object" /\ "items" \in DOMAIN s.v THEN s.v["items"] ELSE Bool(TRUE)

RECURSIVE Extensions(_, _)
Extensions(d, s) ==
    CASE d.k = "object" ->
            {Obj(Merge(d.v, [x \in {key} |-> val])) :
                key \in ExtraNames \ (DOMAIN d.v \cup Mentioned(s)), val \in ExtraValues}
            \cup UNION {{Obj([d.v EXCEPT ![key] = e]) :
                            e \in Extensions(d.v[key], SubPolicy(s, key))} :
                        key \in DOMAIN d.v}
      [] d.k = "array" ->
            UNION {{Arr([d.v EXCEPT ![i] = e]) : e \in Extensions(d.v[i], ItemsPolicy(s))} :
                    i \in 1..Len(d.v)}
      [] OTHER -> {}

\* The policies built only from type, required, properties, items, minimum,
\* maximum and enum with scalar members (sub-policies may be booleans).
OpenKeywords == {"type", "required", "properties", "items", "minimum", "maximum", "enum"}
RECURSIVE OpenVocabulary(_)
OpenVocabulary(s) ==
    \/ s.k = "boolean"
    \/ /\ s.k = "object"
       /\ DOMAIN s.v \subseteq OpenKeywords
       /\ "enum" \in DOMAIN s.v =>
            /\ s.v["enum"].k = "array"
            /\ \A i \in 1..Len(s.v["enum"].v) : s.v["enum"].v[i].k \notin {"object", "array"}
       /\ "properties" \in DOMAIN s.v =>
            /\ s.v["properties"].k = "object"
            /\ \A p \in DOMAIN s.v["properties"].v : OpenVocabulary(s.v["properties"].v[p])
       /\ "items" \in DOMAIN s.v => OpenVocabulary(s.v["items"])

\* C10 (as claimed): when the data is compliant with the policy, the data
\* with one more key that "properties" does not mention is compliant too,
\* whatever other keys the policy contains.
C10_ExtraKeysNeverDrift ==
    (pc = "report" /\ is_valid = "True") =>
        \A d2 \in Extensions(system_data, policy_data) :
            validate_data(d2, policy_data).result

\* C10 (amended): the same, for the policies built only from type, required,
\* properties, items, minimum, maximum and enum with scalar members.
C10_ExtraKeysNeverDriftOpenVocabulary ==
    (pc = "report" /\ is_valid = "True" /\ OpenVocabulary(policy_data)) =>
        \A d2 \in Extensions(system_data, policy_data) :
            validate_data(d2, policy_data).result

\* C10 witness: a compliant mapping with a nested mapping, under a policy of
\* that vocabulary with "properties", has extensions at both levels.
C10_Witness ==
    /\ pc = "report" /\ is_valid = "True" /\ OpenVocabulary(policy_data)
    /\ policy_data.k = "object" /\ "properties" \in DOMAIN policy_data.v
    /\ system_data.k = "object"
    /\ \E key \in DOMAIN system_data.v :
        /\ system_data.v[key].k = "object"
        /\ Extensions(system_data.v[key], SubPolicy(policy_data, key)) # {}
    /\ \E d2 \in Extensions(system_data, policy_data) : "z" \in DOMAIN d2.v
====
